---------------------------- MODULE Spec2Model ----------------------------
(***************************************************************************)
(* Startup bootstrap of cluster authorization state, as implemented in     *)
(* pkg/cmd/server/origin/ensure.go (package origin, type MasterConfig).    *)
(*                                                                         *)
(* The cluster store (namespaces, role bindings, cluster roles, security   *)
(* context constraints, the cluster policy document, legacy namespaced     *)
(* roles) is shared by the control-plane replicas.  Every replica runs the *)
(* ensure* functions sequentially; one step of the model is one call to    *)
(* the store, so that replicas interleave between calls.                   *)
(***************************************************************************)
EXTENDS Integers, Sequences, FiniteSets, TLC

(***************************************************************************)
(* Bounds of the model.                                                    *)
(***************************************************************************)
\* startups (runs of the startup sequence) of one replica
MaxRuns == 2
\* startups of all replicas together where they race through a long function
RaceStartups == 2
\* store calls that fail with an error outside the taxonomy's expected ones
MaxFaults == 2
\* writes of actors other than the bootstrap replicas
MaxEnv == 4
\* rows of the per-namespace service-account grant table
NumGrants == 2
\* default security context constraints
NumSCC == 2
\* rows of the legacy namespaced role table, and of the binding table
NumLegacy == 1
\* controller roles, and controller role bindings
NumControllerRoles == 1

(***************************************************************************)
(* Program constants.                                                      *)
(***************************************************************************)
\* for i := 0; i < 30; i++
PollAttempts == 30
\* retry.DefaultRetry, the backoff handed to retry.RetryOnConflict: Steps
RetrySteps == 5

Replicas == {"m1", "m2"}

\* c.Options.PolicyConfig.OpenShiftSharedResourcesNamespace
OpenShiftSharedResourcesNamespace == "openshift"
\* c.Options.PolicyConfig.OpenShiftInfrastructureNamespace
OpenShiftInfrastructureNamespace == "openshift-infra"
\* metav1.NamespaceDefault
NamespaceDefault == "default"

Namespaces ==
    {OpenShiftSharedResourcesNamespace, OpenShiftInfrastructureNamespace,
     NamespaceDefault}

Grants == 1 .. NumGrants
SCCs == 1 .. NumSCC

\* bootstrappolicy.GetBootstrapServiceAccountProjectRoleBindings(namespace):
\* row g grants role g of the namespace to its own subject
GetBootstrapServiceAccountProjectRoleBindings(n) ==
    [g \in Grants |-> {<<"serviceaccount", g>>}]

\* a subject some other actor granted the same role to
OtherSubject == <<"user", 0>>

\* bootstrappolicy.ControllerRoles(), then bootstrappolicy.ControllerRoleBindings()
ControllerRoles == [i \in 1 .. NumControllerRoles |-> <<"role", "controller", i>>]
ControllerRoleBindings ==
    [i \in 1 .. NumControllerRoles |-> <<"binding", "controller", i>>]

\* bootstrappolicy.DiscoveryRoleName, as a role and as its binding
DiscoveryRole == <<"role", "discovery", 0>>
DiscoveryRoleBinding == <<"binding", "discovery", 0>>

ClusterItems ==
    {ControllerRoles[i] : i \in 1 .. NumControllerRoles}
        \cup {ControllerRoleBindings[i] : i \in 1 .. NumControllerRoles}
        \cup {DiscoveryRole, DiscoveryRoleBinding}

\* the rules (of a role) or subjects (of a binding) the bootstrap policy wants
DesiredOf(item) == {"bootstrap"}

\* kbootstrappolicy.NamespaceRoles(), then kbootstrappolicy.NamespaceRoleBindings()
LegacyRoles == [i \in 1 .. NumLegacy |-> <<"role", i>>]
LegacyRoleBindings == [i \in 1 .. NumLegacy |-> <<"binding", i>>]
LegacyItems ==
    {LegacyRoles[i] : i \in 1 .. NumLegacy}
        \cup {LegacyRoleBindings[i] : i \in 1 .. NumLegacy}

\* the functions of the startup sequence
Functions == {"shared", "infra", "default", "scc", "policy"}

VARIABLES
    nsStore,      \* namespace store: name -> [exists, marker, ver]
    rbStore,      \* role bindings: <<namespace, grant>> -> [subjects, ver]; ver 0: absent
    clusterStore, \* cluster roles and bindings: item -> [have, ver]; ver 0: absent
    sccStore,     \* security context constraints: name -> creator, or "none"
    policyDoc,    \* the cluster policy document: [exists, seeds]
    legacyStore,  \* the legacy namespaced roles and bindings that exist
    pc,           \* replica -> the call it is about to make
    fnIdx,        \* replica -> index in plan of the function it is running
    run,          \* replica -> startups begun
    loc,          \* replica -> the locals of the function it is running
    gh,           \* replica -> what it did in its current startup (history)
    plan,         \* the functions one startup runs, in order
    badConv,      \* the legacy rows whose conversion fails
    active,       \* the replicas that start
    maxRuns,      \* the startups a replica makes at most
    maxStartups,  \* the startups all replicas together make at most
    faults,       \* store errors still to be injected
    envLeft,      \* writes of other actors still to happen
    hist          \* history of the store: [s0, called, granted, envAdded, nsTouched]

storeVars == <<nsStore, rbStore, clusterStore, sccStore, policyDoc, legacyStore>>
cfgVars == <<plan, badConv, active, maxRuns, maxStartups>>
vars ==
    <<nsStore, rbStore, clusterStore, sccStore, policyDoc, legacyStore, pc,
      fnIdx, run, loc, gh, plan, badConv, active, maxRuns,
      maxStartups, faults, envLeft, hist>>

NoNamespace == [name |-> "", marker |-> FALSE, ver |-> 0]
NoBinding == [subjects |-> {}, ver |-> 0]

\* the locals of a function that has not run yet
InitLoc ==
    [ns |-> NoNamespace,   \* namespace *kapi.Namespace
     hasErrors |-> FALSE,  \* hasErrors
     g |-> 1,              \* position of the range over the grant table
     tries |-> 0,          \* attempts RetryOnConflict has made for this grant
     rb |-> NoBinding,     \* the binding AddRole fetched
     v0 |-> 0,             \* version of the binding when RetryOnConflict began
     i |-> 0,              \* i of the polling loop
     li |-> 1,             \* position of a range over a table
     rq |-> << >>,         \* cluster items still to reconcile
     after |-> "ret"]      \* where the reconcile loops continue

\* the history of a startup that has not done anything yet
InitGh ==
    [tried |-> {},      \* <<namespace, grant>>: grants attempted
     ok |-> {},         \* grants that returned nil
     failed |-> {},     \* grants that ended in a terminal error
     conflicted |-> {}, \* grants that ended in a conflict past the retry bound
     conflictWrites |-> {}, \* per such grant: writes of others to the binding meanwhile
     sa |-> {},         \* namespaces ensureNamespaceServiceAccountRoleBindings ran on
     short |-> {},      \* namespaces it returned from at the short-circuit
     upd |-> {},        \* namespaces whose marker update was issued
     updConflict |-> {},\* namespaces whose marker update ended in a conflict
     lostRace |-> {},   \* namespaces whose create returned already-exists
     sharedGet |-> "none", \* outcome of the fetch of the shared-resources namespace
     chk |-> "none",    \* outcome of the existence check of the policy document
     seeded |-> 0,      \* calls of OverwriteBootstrapPolicy
     seededOver |-> FALSE, \* a seed was applied over an existing document
     legacy |-> {},     \* legacy rows whose create was issued
     legacySeen |-> {}, \* legacy rows the loops visited
     rec |-> << >>,     \* cluster items whose reconciliation was attempted, in order
     recFailed |-> {},  \* cluster items whose reconciliation returned an error
     fetches |-> 0,     \* fetches of the default namespace
     gaveUp |-> FALSE,  \* the polling loop ran out of attempts
     aborted |-> {},    \* functions that returned at an error
     ended |-> {},      \* functions that returned
     sccTries |-> [s \in SCCs |-> 0], \* creates issued per constraint
     elog |-> {},       \* glog.Errorf / HandleError calls: <<function, subject>>
     errs |-> 0,        \* injected store errors this startup met
     left |-> {},       \* namespaces the previous startup left unmarked after a failed grant
     leftLegacy |-> {}] \* legacy rows the previous startup failed to create, still missing

Entry(f) ==
    CASE f = "shared" -> "shared_get"
      [] f = "infra" -> "infra_create"
      [] f = "default" -> "default_get"
      [] f = "scc" -> "scc_create"
      [] f = "policy" -> "policy_storage"


(***************************************************************************)
(* Control flow shared by the functions.                                   *)
(***************************************************************************)
\* the replica goes on inside its function
Move(r, l, L, H) ==
    /\ pc' = [pc EXCEPT ![r] = l]
    /\ loc' = [loc EXCEPT ![r] = L]
    /\ gh' = [gh EXCEPT ![r] = H]
    /\ UNCHANGED <<fnIdx, run>>

\* the function returns: the startup sequence calls the next one, or ends
Ret(r, H) ==
    LET f == plan[fnIdx[r]]
        last == fnIdx[r] = Len(plan)
    IN  /\ pc' = [pc EXCEPT ![r] = IF last THEN "idle" ELSE Entry(plan[fnIdx[r] + 1])]
        /\ fnIdx' = [fnIdx EXCEPT ![r] = IF last THEN @ ELSE @ + 1]
        /\ loc' = [loc EXCEPT ![r] = InitLoc]
        /\ gh' = [gh EXCEPT ![r] = [H EXCEPT !.ended = @ \cup {f}]]
        /\ UNCHANGED run

\* the function returns at an error it logged
Abort(r, H) ==
    Ret(r, [H EXCEPT !.aborted = @ \cup {plan[fnIdx[r]]}])

\* a store call fails with an error of the taxonomy's Other class
FaultHit ==
    /\ faults > 0
    /\ faults' = faults - 1

NoFault == UNCHANGED faults

Err(H) == [H EXCEPT !.errs = @ + 1]

\* glog.Errorf, utilruntime.HandleError
Log(H, what, k) == [H EXCEPT !.elog = @ \cup {<<what, k>>}]

\* Namespaces().Get of an existing namespace: the stored object
Fetched(n) == [name |-> n, marker |-> nsStore[n].marker, ver |-> nsStore[n].ver]

\* the namespaces that exist without the marker and had a grant of the
\* startup described by history H fail
LeftUnset(H) ==
    {n \in Namespaces :
        /\ nsStore[n].exists
        /\ ~nsStore[n].marker
        /\ \E g \in Grants : <<n, g>> \in H.failed}

\* the legacy rows whose create failed in the startup described by history H
\* and that do not exist
LegacyLeft(H) ==
    {item \in H.legacy \ legacyStore :
        \E i \in 1 .. (2 * NumLegacy) :
            /\ <<"legacy", i>> \in H.elog
            /\ item = IF i <= NumLegacy THEN <<"role", i>>
                      ELSE <<"binding", i - NumLegacy>>}

RECURSIVE SumRuns(_)
SumRuns(R) ==
    IF R = {} THEN 0
    ELSE LET r == CHOOSE x \in R : TRUE IN run[r] + SumRuns(R \ {r})

\* the startups begun so far
Startups == SumRuns(Replicas)

\* a control-plane start: the startup sequence begins
Startup(r) ==
    /\ pc[r] = "idle"
    /\ r \in active
    /\ run[r] < maxRuns
    /\ Startups < maxStartups
    /\ run' = [run EXCEPT ![r] = @ + 1]
    /\ fnIdx' = [fnIdx EXCEPT ![r] = 1]
    /\ pc' = [pc EXCEPT ![r] = Entry(plan[1])]
    /\ loc' = [loc EXCEPT ![r] = InitLoc]
    /\ gh' = [gh EXCEPT ![r] = [InitGh EXCEPT !.left = LeftUnset(gh[r]),
                                              !.leftLegacy = LegacyLeft(gh[r])]]
    /\ UNCHANGED <<storeVars, cfgVars, faults, envLeft, hist>>

(***************************************************************************)
(* ensureNamespaceServiceAccountRoleBindings(namespace)                    *)
(***************************************************************************)
\* variant: the short-circuit is never taken
AlreadyInitialized_Never(namespace) == FALSE

\* namespace.Annotations[ServiceAccountRolesInitializedAnnotation] == "true"
AlreadyInitialized(namespace) == namespace.marker

\* Short-circuit if we're already initialized
SACheck(r) ==
    /\ pc[r] = "sa_check"
    /\ LET n == loc[r].ns.name
           H == [gh[r] EXCEPT !.sa = @ \cup {n}]
       IN  IF AlreadyInitialized(loc[r].ns)
           THEN Ret(r, [H EXCEPT !.short = @ \cup {n}])
           ELSE Move(r, "grant_read",
                     [loc[r] EXCEPT !.hasErrors = FALSE, !.g = 1, !.tries = 0], H)
    /\ UNCHANGED <<storeVars, cfgVars, faults, envLeft, hist>>

\* variant: hasErrors is never set
HasErrorsAfter_Never(hasErrors, failed) == FALSE

\* variant: hasErrors = err != nil, which forgets the earlier grants
HasErrorsAfter_LastOnly(hasErrors, failed) == failed

\* hasErrors after a grant whose RetryOnConflict returned err (failed: err != nil)
HasErrorsAfter(hasErrors, failed) == hasErrors \/ failed

\* variant: the first failed grant ends the range
GrantLoopEnds_OnError(g, failed) == g = NumGrants \/ failed

\* the range over the grant table ends after grant g, whether or not the
\* grant failed
GrantLoopEnds(g, failed) == g = NumGrants

\* the body of the range over the grant table ends for this grant
GrantEnd(r, H, success, conflict) ==
    LET n == loc[r].ns.name
        g == loc[r].g
        H1 == IF success
              THEN [H EXCEPT !.ok = @ \cup {<<n, g>>}]
              ELSE Log([H EXCEPT !.failed = @ \cup {<<n, g>>},
                                 !.conflicted = IF conflict THEN @ \cup {<<n, g>>} ELSE @,
                                 !.conflictWrites =
                                     IF conflict
                                     THEN @ \cup {rbStore[<<n, g>>].ver - loc[r].v0}
                                     ELSE @],
                       "grant", g)
        L == [loc[r] EXCEPT !.hasErrors = HasErrorsAfter(@, ~success),
                            !.g = @ + 1, !.tries = 0, !.rb = NoBinding, !.v0 = 0]
    IN  Move(r, IF GrantLoopEnds(g, ~success) THEN "sa_mark" ELSE "grant_read", L, H1)

\* AddRole: fetch the role binding of the role in the namespace
GrantRead(r) ==
    /\ pc[r] = "grant_read"
    /\ LET n == loc[r].ns.name
           g == loc[r].g
           H == [gh[r] EXCEPT !.tried = @ \cup {<<n, g>>}]
       IN  /\ hist' = [hist EXCEPT !.called = @ \cup {<<n, g>>}]
           /\ \/ /\ NoFault
                 /\ Move(r, "grant_write",
                         [loc[r] EXCEPT !.rb = rbStore[<<n, g>>],
                                        !.v0 = IF loc[r].tries = 0
                                               THEN rbStore[<<n, g>>].ver ELSE @], H)
              \/ /\ FaultHit
                 /\ GrantEnd(r, Err(H), FALSE, FALSE)
    /\ UNCHANGED <<storeVars, cfgVars, envLeft>>

\* AddRole: the subjects of the binding after adding the desired ones
AddRoleMerge(existing, desired) == existing \cup desired

\* variant: no retry, the first conflict is terminal
RetryExhausted_FirstConflict(tries) == TRUE

\* retry.RetryOnConflict(retry.DefaultRetry, ...): after `tries` earlier
\* conflicts one more conflict ends the loop
RetryExhausted(tries) == tries + 1 >= RetrySteps

\* AddRole: write the binding back (create it when none was fetched)
GrantWrite(r) ==
    /\ pc[r] = "grant_write"
    /\ LET n == loc[r].ns.name
           g == loc[r].g
           b == <<n, g>>
           d == GetBootstrapServiceAccountProjectRoleBindings(n)[g]
           mine == loc[r].rb
           merged == AddRoleMerge(mine.subjects, d)
       IN  \/ /\ FaultHit
              /\ GrantEnd(r, Err(gh[r]), FALSE, FALSE)
              /\ UNCHANGED <<rbStore, hist>>
           \/ /\ NoFault
              /\ mine.ver = 0
              /\ IF rbStore[b].ver = 0
                 THEN /\ rbStore' = [rbStore EXCEPT ![b] = [subjects |-> merged, ver |-> 1]]
                      /\ hist' = [hist EXCEPT !.granted = @ \cup {b}]
                      /\ GrantEnd(r, gh[r], TRUE, FALSE)
                 ELSE \* already exists: not a conflict, RetryOnConflict returns it
                      /\ GrantEnd(r, gh[r], FALSE, FALSE)
                      /\ UNCHANGED <<rbStore, hist>>
           \/ /\ NoFault
              /\ mine.ver # 0
              /\ IF rbStore[b].ver = mine.ver
                 THEN /\ rbStore' = [rbStore EXCEPT ![b] =
                                        [subjects |-> merged, ver |-> mine.ver + 1]]
                      /\ hist' = [hist EXCEPT !.granted = @ \cup {b}]
                      /\ GrantEnd(r, gh[r], TRUE, FALSE)
                 ELSE \* version conflict
                      /\ IF RetryExhausted(loc[r].tries)
                         THEN GrantEnd(r, gh[r], FALSE, TRUE)
                         ELSE Move(r, "grant_read",
                                   [loc[r] EXCEPT !.tries = @ + 1, !.rb = NoBinding], gh[r])
                      /\ UNCHANGED <<rbStore, hist>>
    /\ UNCHANGED <<nsStore, clusterStore, sccStore, policyDoc, legacyStore,
                   cfgVars, envLeft>>

\* If we had errors, don't register initialization so we can try again
SAReturnOnErrors(r) ==
    /\ pc[r] = "sa_mark"
    /\ loc[r].hasErrors
    /\ Ret(r, gh[r])
    /\ UNCHANGED <<storeVars, cfgVars, faults, envLeft, hist>>

\* variant: the update is refused as a conflict whatever the versions
UpdateConflicts_Always(stored, mine) == TRUE

\* Namespaces().Update(namespace) returns a conflict: the stored namespace is
\* no longer the version the caller holds
UpdateConflicts(stored, mine) == stored.ver # mine.ver

\* set the annotation and Namespaces().Update(namespace)
SAMarkUpdate(r) ==
    /\ pc[r] = "sa_mark"
    /\ ~loc[r].hasErrors
    /\ LET n == loc[r].ns.name
           H == [gh[r] EXCEPT !.upd = @ \cup {n}]
       IN  \/ /\ FaultHit
              /\ Ret(r, Log(Err(H), "marker", 0))
              /\ UNCHANGED nsStore
           \/ /\ NoFault
              /\ IF UpdateConflicts(nsStore[n], loc[r].ns)
                 THEN \* version conflict: not logged
                      /\ Ret(r, [H EXCEPT !.updConflict = @ \cup {n}])
                      /\ UNCHANGED nsStore
                 ELSE /\ nsStore' = [nsStore EXCEPT ![n] =
                                        [exists |-> TRUE, marker |-> TRUE, ver |-> @.ver + 1]]
                      /\ Ret(r, H)
    /\ UNCHANGED <<rbStore, clusterStore, sccStore, policyDoc, legacyStore,
                   cfgVars, envLeft, hist>>

ensureNamespaceServiceAccountRoleBindings(r) ==
    \/ SACheck(r)
    \/ GrantRead(r)
    \/ GrantWrite(r)
    \/ SAReturnOnErrors(r)
    \/ SAMarkUpdate(r)

(***************************************************************************)
(* ensureDefaultNamespaceServiceAccountRoles                               *)
(***************************************************************************)
\* variant: i <= 30
PollAgain_OneMore(i) == i <= PollAttempts

\* the condition of the polling loop
PollAgain(i) == i < PollAttempts

\* variant: every error of the fetch is taken for "not yet created"
RetryFetch_AnyError(err) == err # "none"

\* kapierror.IsNotFound(err): sleep and continue
RetryFetch(err) == err = "notfound"

\* one iteration of the loop: Namespaces().Get(metav1.NamespaceDefault)
DefaultGet(r) ==
    /\ pc[r] = "default_get"
    /\ PollAgain(loc[r].i)
    /\ LET H == [gh[r] EXCEPT !.fetches = @ + 1]
           Outcome(H1, err) ==
               IF err = "none"
               THEN Move(r, "sa_check",
                         [loc[r] EXCEPT !.ns = Fetched(NamespaceDefault), !.i = 0], H1)
               ELSE IF RetryFetch(err)
                    THEN \* sleep a second and fetch again
                         Move(r, "default_get", [loc[r] EXCEPT !.i = @ + 1], H1)
                    ELSE Abort(r, Log(H1, "default", 0))
       IN  \/ /\ NoFault
              /\ Outcome(H, IF nsStore[NamespaceDefault].exists
                             THEN "none" ELSE "notfound")
           \/ /\ FaultHit
              /\ Outcome(Err(H), "other")
    /\ UNCHANGED <<storeVars, cfgVars, envLeft, hist>>

\* the loop ran out: namespace == nil
DefaultGiveUp(r) ==
    /\ pc[r] = "default_get"
    /\ ~PollAgain(loc[r].i)
    /\ Abort(r, Log([gh[r] EXCEPT !.gaveUp = TRUE], "default", 1))
    /\ UNCHANGED <<storeVars, cfgVars, faults, envLeft, hist>>

ensureDefaultNamespaceServiceAccountRoles(r) ==
    \/ DefaultGet(r)
    \/ DefaultGiveUp(r)

(***************************************************************************)
(* Other actors of the cluster.                                            *)
(***************************************************************************)
\* the bootstrapper of the default namespace creates it
EnvCreateDefault ==
    /\ ~nsStore[NamespaceDefault].exists
    /\ nsStore' = [nsStore EXCEPT ![NamespaceDefault] =
                      [exists |-> TRUE, marker |-> FALSE, ver |-> 1]]
    /\ UNCHANGED <<rbStore, clusterStore, sccStore, policyDoc, legacyStore, pc,
                   fnIdx, run, loc, gh, cfgVars, faults, envLeft, hist>>

\* another caller of AddRole grants the role of binding b to OtherSubject
EnvAddSubject(b) ==
    /\ envLeft > 0
    /\ envLeft' = envLeft - 1
    /\ rbStore' = [rbStore EXCEPT ![b] =
                      [subjects |-> AddRoleMerge(@.subjects, {OtherSubject}),
                       ver |-> @.ver + 1]]
    /\ hist' = [hist EXCEPT !.envAdded = @ \cup {b}]
    /\ UNCHANGED <<nsStore, clusterStore, sccStore, policyDoc, legacyStore, pc,
                   fnIdx, run, loc, gh, cfgVars, faults>>

\* another actor updates namespace n (a label, a finalizer), marker untouched
EnvUpdateNamespace(n) ==
    /\ envLeft > 0
    /\ nsStore[n].exists
    /\ envLeft' = envLeft - 1
    /\ nsStore' = [nsStore EXCEPT ![n].ver = @ + 1]
    /\ hist' = [hist EXCEPT !.nsTouched = @ \cup {n}]
    /\ UNCHANGED <<rbStore, clusterStore, sccStore, policyDoc, legacyStore, pc,
                   fnIdx, run, loc, gh, cfgVars, faults>>

(***************************************************************************)
(* RunReconcileClusterRoles / RunReconcileClusterRoleBindings with         *)
(* Union and Confirmed set, one named role or binding per call.            *)
(***************************************************************************)
\* the reconciliation of the head of the queue ended; go to the next item
RecNext(r, H) ==
    LET rest == Tail(loc[r].rq)
        L == [loc[r] EXCEPT !.rq = rest]
    IN  IF rest # << >>
        THEN Move(r, "reconcile", L, H)
        ELSE IF loc[r].after = "ret"
             THEN Ret(r, H)
             ELSE Move(r, loc[r].after, L, H)

\* the reconciliation returned an error, which the caller logs
RecFail(r, H) ==
    RecNext(r, Log([H EXCEPT !.recFailed = @ \cup {Head(loc[r].rq)}], "reconcile", 0))

\* variant: the reconciler is set up without Union
UnionOption_Off(item) == FALSE

\* Union: true in the options of the reconciler of a role or binding
UnionOption(item) == TRUE

\* what the reconciler computes for an item: with Union the union of what
\* exists with what is desired, else what is desired
ReconcileUnion(existing, desired) == existing \cup desired

\* One call of the reconciler for the head of the queue: fetch the role or
\* binding, compute the union, persist it when it differs from what exists.
\* The call is one step: an error of the fetch or of the write, a write lost
\* to a concurrent writer included, returns an error and writes nothing.
RunReconcile(r) ==
    /\ pc[r] = "reconcile"
    /\ LET item == Head(loc[r].rq)
           H == [gh[r] EXCEPT !.rec = Append(@, item)]
           cur == clusterStore[item]
           union == IF UnionOption(item)
                    THEN ReconcileUnion(cur.have, DesiredOf(item))
                    ELSE DesiredOf(item)
       IN  \/ /\ FaultHit
              /\ RecFail(r, Err(H))
              /\ UNCHANGED clusterStore
           \/ /\ NoFault
              /\ clusterStore' =
                    IF cur.ver # 0 /\ union = cur.have
                    THEN clusterStore
                    ELSE [clusterStore EXCEPT ![item] = [have |-> union, ver |-> cur.ver + 1]]
              /\ RecNext(r, H)
    /\ UNCHANGED <<nsStore, rbStore, sccStore, policyDoc, legacyStore, cfgVars,
                   envLeft, hist>>

(***************************************************************************)
(* ensureOpenShiftSharedResourcesNamespace                                 *)
(***************************************************************************)
\* a namespace as Namespaces().Create stores and returns it
Created(n) == [name |-> n, marker |-> FALSE, ver |-> 1]

\* variant: err != nil
SharedCreates_AnyError(outcome) == outcome # "found"

\* kapierror.IsNotFound(err) of the fetch: the body of the if runs
SharedCreates(outcome) == outcome = "notfound"

\* Namespaces().Get(OpenShiftSharedResourcesNamespace)
SharedGet(r) ==
    /\ pc[r] = "shared_get"
    /\ LET n == OpenShiftSharedResourcesNamespace
           After(H, outcome) ==
               IF SharedCreates(outcome)
               THEN Move(r, "shared_create", loc[r], [H EXCEPT !.sharedGet = outcome])
               ELSE Ret(r, [H EXCEPT !.sharedGet = outcome])
       IN  \/ /\ NoFault
              /\ After(gh[r], IF nsStore[n].exists THEN "found" ELSE "notfound")
           \/ /\ FaultHit
              /\ After(Err(gh[r]), "error")
    /\ UNCHANGED <<storeVars, cfgVars, envLeft, hist>>

\* Namespaces().Create; createErr != nil returns
SharedCreate(r) ==
    /\ pc[r] = "shared_create"
    /\ LET n == OpenShiftSharedResourcesNamespace
       IN  \/ /\ FaultHit
              /\ Abort(r, Log(Err(gh[r]), "shared", 0))
              /\ UNCHANGED nsStore
           \/ /\ NoFault
              /\ nsStore[n].exists
              \* already exists
              /\ Abort(r, Log([gh[r] EXCEPT !.lostRace = @ \cup {n}], "shared", 1))
              /\ UNCHANGED nsStore
           \/ /\ NoFault
              /\ ~nsStore[n].exists
              /\ nsStore' = [nsStore EXCEPT ![n] =
                                [exists |-> TRUE, marker |-> FALSE, ver |-> 1]]
              /\ Move(r, "sa_check", [loc[r] EXCEPT !.ns = Created(n)], gh[r])
    /\ UNCHANGED <<rbStore, clusterStore, sccStore, policyDoc, legacyStore,
                   cfgVars, envLeft, hist>>

ensureOpenShiftSharedResourcesNamespace(r) ==
    \/ SharedGet(r)
    \/ SharedCreate(r)

(***************************************************************************)
(* ensureOpenShiftInfraNamespace                                           *)
(***************************************************************************)
\* the two range loops over the controller roles and their bindings
ControllerQueue == ControllerRoles \o ControllerRoleBindings

\* variant: the error is logged and the function goes on
InfraReturns_Never(err) == FALSE

\* if err != nil { glog.Errorf(...); return }, after the create that did not
\* report already-exists and after the fetch
InfraReturns(err) == err # "none"

\* the function goes on to the controller roles with the namespace it holds
InfraReconcile(r, namespace, H) ==
    Move(r, "reconcile",
         [loc[r] EXCEPT !.ns = namespace, !.rq = ControllerQueue,
                        !.after = "sa_check"], H)

\* Ensure namespace exists: Namespaces().Create
InfraCreate(r) ==
    /\ pc[r] = "infra_create"
    /\ LET n == OpenShiftInfrastructureNamespace
       IN  \/ /\ FaultHit
              /\ IF InfraReturns("other")
                 THEN Abort(r, Log(Err(gh[r]), "infra", 0))
                 ELSE InfraReconcile(r, Fetched(n), Log(Err(gh[r]), "infra", 0))
              /\ UNCHANGED nsStore
           \/ /\ NoFault
              /\ nsStore[n].exists
              \* already exists: get the persisted namespace
              /\ Move(r, "infra_get", loc[r], [gh[r] EXCEPT !.lostRace = @ \cup {n}])
              /\ UNCHANGED nsStore
           \/ /\ NoFault
              /\ ~nsStore[n].exists
              /\ nsStore' = [nsStore EXCEPT ![n] =
                                [exists |-> TRUE, marker |-> FALSE, ver |-> 1]]
              /\ InfraReconcile(r, Created(n), gh[r])
    /\ UNCHANGED <<rbStore, clusterStore, sccStore, policyDoc, legacyStore,
                   cfgVars, envLeft, hist>>

\* Get the persisted namespace
InfraGet(r) ==
    /\ pc[r] = "infra_get"
    /\ LET n == OpenShiftInfrastructureNamespace
       IN  \/ /\ FaultHit
              /\ IF InfraReturns("other")
                 THEN Abort(r, Log(Err(gh[r]), "infra", 1))
                 ELSE InfraReconcile(r, Fetched(n), Log(Err(gh[r]), "infra", 1))
           \/ /\ NoFault
              /\ InfraReconcile(r, Fetched(n), gh[r])
    /\ UNCHANGED <<storeVars, cfgVars, envLeft, hist>>

ensureOpenShiftInfraNamespace(r) ==
    \/ InfraCreate(r)
    \/ InfraGet(r)

(***************************************************************************)
(* ensureDefaultSecurityContextConstraints                                 *)
(***************************************************************************)
\* variant: a create error other than already-exists returns from the function
SCCLoopEnds_OnError(s, err) == s = NumSCC \/ err = "other"

\* the range over the constraints ends after constraint s, whatever Create
\* returned for it (err: "none", "exists" or "other")
SCCLoopEnds(s, err) == s = NumSCC

\* one iteration of the range over the constraints: Create(&scc)
SCCCreate(r) ==
    /\ pc[r] = "scc_create"
    /\ LET s == loc[r].li
           H == [gh[r] EXCEPT !.sccTries[s] = @ + 1]
           L == [loc[r] EXCEPT !.li = @ + 1]
           Continue(H1, err) ==
               IF SCCLoopEnds(s, err) THEN Ret(r, H1) ELSE Move(r, "scc_create", L, H1)
       IN  \/ /\ FaultHit
              /\ Continue(Log(Err(H), "scc", s), "other")
              /\ UNCHANGED sccStore
           \/ /\ NoFault
              /\ sccStore[s] # "none"
              \* already exists
              /\ Continue(H, "exists")
              /\ UNCHANGED sccStore
           \/ /\ NoFault
              /\ sccStore[s] = "none"
              /\ sccStore' = [sccStore EXCEPT ![s] = "bootstrap"]
              /\ Continue(H, "none")
    /\ UNCHANGED <<nsStore, rbStore, clusterStore, policyDoc, legacyStore,
                   cfgVars, envLeft, hist>>

ensureDefaultSecurityContextConstraints(r) == SCCCreate(r)

(***************************************************************************)
(* ensureComponentAuthorizationRules                                       *)
(***************************************************************************)
\* the final reconciliation: the discovery role, then its binding
DiscoveryQueue == <<DiscoveryRole, DiscoveryRoleBinding>>

\* the two nested range loops over the legacy roles, then over the bindings
LegacyQueue == LegacyRoles \o LegacyRoleBindings

\* clusterpolicystorage.NewREST(c.RESTOptionsGetter)
PolicyStorage(r) ==
    /\ pc[r] = "policy_storage"
    /\ \/ /\ FaultHit
          /\ Abort(r, Log(Err(gh[r]), "policy", 0))
       \/ /\ NoFault
          /\ Move(r, "policy_check", loc[r], gh[r])
    /\ UNCHANGED <<storeVars, cfgVars, envLeft, hist>>

\* variant: err != nil
SeedDecision_AnyError(outcome) == outcome # "found"

\* kapierror.IsNotFound(err) of the existence check
SeedDecision(outcome) == outcome = "notfound"

\* where the check's outcome leads
AfterCheck(r, outcome, H) ==
    IF SeedDecision(outcome)
    THEN Move(r, "policy_seed", loc[r], [H EXCEPT !.chk = outcome])
    ELSE Move(r, "reconcile", [loc[r] EXCEPT !.rq = DiscoveryQueue, !.after = "ret"],
              [H EXCEPT !.chk = outcome])

\* clusterPolicyRegistry.GetClusterPolicy(ctx, authorizationapi.PolicyName)
PolicyCheck(r) ==
    /\ pc[r] = "policy_check"
    /\ \/ /\ FaultHit
          /\ AfterCheck(r, "error", Err(gh[r]))
       \/ /\ NoFault
          /\ AfterCheck(r, IF policyDoc.exists THEN "found" ELSE "notfound", gh[r])
    /\ UNCHANGED <<storeVars, cfgVars, envLeft, hist>>

\* variant: a failed seed returns from the function
SeedErrorReturns_Always(err) == err # "none"

\* the error of the seed is logged and nothing else
SeedErrorReturns(err) == FALSE

\* admin.OverwriteBootstrapPolicy(...)
PolicySeed(r) ==
    /\ pc[r] = "policy_seed"
    /\ LET H == [gh[r] EXCEPT !.seeded = @ + 1]
           L == [loc[r] EXCEPT !.li = 1]
       IN  \/ /\ FaultHit
              /\ IF SeedErrorReturns("other")
                 THEN Abort(r, Log(Err(H), "policy", 1))
                 ELSE Move(r, "legacy", L, Log(Err(H), "policy", 1))
              /\ UNCHANGED policyDoc
           \/ /\ NoFault
              /\ policyDoc' = [exists |-> TRUE, seeds |-> policyDoc.seeds + 1]
              /\ Move(r, "legacy", L,
                      [H EXCEPT !.seededOver = @ \/ policyDoc.exists])
    /\ UNCHANGED <<nsStore, rbStore, clusterStore, sccStore, legacyStore,
                   cfgVars, envLeft, hist>>

\* one iteration of the legacy loops: convert the row, then Create it
Legacy(r) ==
    /\ pc[r] = "legacy"
    /\ LET item == LegacyQueue[loc[r].li]
           H == [gh[r] EXCEPT !.legacySeen = @ \cup {item}]
           HC == [H EXCEPT !.legacy = @ \cup {item}]
           Continue(H1) ==
               IF loc[r].li = Len(LegacyQueue)
               THEN Move(r, "reconcile",
                         [loc[r] EXCEPT !.rq = DiscoveryQueue, !.after = "ret"], H1)
               ELSE Move(r, "legacy", [loc[r] EXCEPT !.li = @ + 1], H1)
       IN  \/ /\ item \in badConv
              \* unable to convert
              /\ Continue(Log(H, "convert", loc[r].li))
              /\ UNCHANGED <<legacyStore, faults>>
           \/ /\ item \notin badConv
              /\ FaultHit
              /\ Continue(Log(Err(HC), "legacy", loc[r].li))
              /\ UNCHANGED legacyStore
           \/ /\ item \notin badConv
              /\ NoFault
              /\ IF item \in legacyStore
                 THEN \* already exists
                      /\ Continue(Log(HC, "legacy", loc[r].li))
                      /\ UNCHANGED legacyStore
                 ELSE /\ legacyStore' = legacyStore \cup {item}
                      /\ Continue(HC)
    /\ UNCHANGED <<nsStore, rbStore, clusterStore, sccStore, policyDoc,
                   cfgVars, envLeft, hist>>

ensureComponentAuthorizationRules(r) ==
    \/ PolicyStorage(r)
    \/ PolicyCheck(r)
    \/ PolicySeed(r)
    \/ Legacy(r)

(***************************************************************************)
(* Initial states.                                                         *)
(***************************************************************************)
Bindings == Namespaces \X Grants

\* a subject a binding held before any startup
PreSubject == <<"user", 1>>

NoNamespaces == [n \in Namespaces |-> [exists |-> FALSE, marker |-> FALSE, ver |-> 0]]

\* a rule or subject a cluster role or binding held before any startup
PreRule == "custom"

\* an empty cluster, but for roles and bindings that may exist already with
\* a rule or subject of their own
InitCommon ==
    /\ legacyStore = {}
    /\ pc = [r \in Replicas |-> "idle"]
    /\ fnIdx = [r \in Replicas |-> 1]
    /\ run = [r \in Replicas |-> 0]
    /\ loc = [r \in Replicas |-> InitLoc]
    /\ gh = [r \in Replicas |-> InitGh]
    /\ \E pre \in BOOLEAN :
          /\ clusterStore = [c \in ClusterItems |->
                                IF pre THEN [have |-> {PreRule}, ver |-> 1]
                                ELSE [have |-> {}, ver |-> 0]]
          /\ rbStore = [b \in Bindings |->
                           IF pre THEN [subjects |-> {PreSubject}, ver |-> 1]
                           ELSE NoBinding]
          /\ hist = [s0 |-> IF pre THEN {PreSubject} ELSE {},
                     called |-> {}, granted |-> {}, envAdded |-> {},
                     nsTouched |-> {}]

\* no security context constraint and no cluster policy document yet
InitFresh ==
    /\ sccStore = [s \in SCCs |-> "none"]
    /\ policyDoc = [exists |-> FALSE, seeds |-> 0]

(***************************************************************************)
(* Spec: the replicas run ensureOpenShiftInfraNamespace, racing for the    *)
(* namespace, the controller roles and the grants; store calls may fail.   *)
(***************************************************************************)
Init ==
    /\ InitCommon
    /\ InitFresh
    /\ nsStore = NoNamespaces
    /\ plan = <<"infra">>
    /\ badConv = {}
    /\ active = Replicas
    /\ maxRuns = MaxRuns
    /\ maxStartups = RaceStartups
    /\ faults = MaxFaults
    /\ envLeft = 0

Next ==
    \E r \in Replicas :
        \/ Startup(r)
        \/ ensureOpenShiftInfraNamespace(r)
        \/ RunReconcile(r)
        \/ ensureNamespaceServiceAccountRoleBindings(r)

Spec == Init /\ [][Next]_vars

(***************************************************************************)
(* SpecShared: the replicas run ensureOpenShiftSharedResourcesNamespace.   *)
(***************************************************************************)
InitShared ==
    /\ InitCommon
    /\ InitFresh
    /\ nsStore = NoNamespaces
    /\ plan = <<"shared">>
    /\ badConv = {}
    /\ active = Replicas
    /\ maxRuns = MaxRuns
    /\ maxStartups = MaxRuns * Cardinality(Replicas)
    /\ faults = MaxFaults
    /\ envLeft = 0

NextShared ==
    \E r \in Replicas :
        \/ Startup(r)
        \/ ensureOpenShiftSharedResourcesNamespace(r)
        \/ ensureNamespaceServiceAccountRoleBindings(r)

SpecShared == InitShared /\ [][NextShared]_vars

(***************************************************************************)
(* SpecPoll: one replica runs ensureDefaultNamespaceServiceAccountRoles    *)
(* while the default namespace may appear and store calls may fail.        *)
(***************************************************************************)
InitPoll ==
    /\ InitCommon
    /\ InitFresh
    /\ nsStore = NoNamespaces
    /\ plan = <<"default">>
    /\ badConv = {}
    /\ active = {"m1"}
    /\ maxRuns = MaxRuns
    /\ maxStartups = MaxRuns * Cardinality(Replicas)
    /\ faults = MaxFaults
    /\ envLeft = 0

NextPoll ==
    \/ \E r \in Replicas :
          \/ Startup(r)
          \/ ensureDefaultNamespaceServiceAccountRoles(r)
          \/ ensureNamespaceServiceAccountRoleBindings(r)
    \/ EnvCreateDefault

SpecPoll == InitPoll /\ [][NextPoll]_vars

(***************************************************************************)
(* SpecGrant: the replicas run the grants of the default namespace, which  *)
(* exists, while other callers add subjects to the same bindings; no store *)
(* call fails but by a conflict.                                           *)
(***************************************************************************)
InitGrant ==
    /\ InitCommon
    /\ InitFresh
    /\ nsStore = [NoNamespaces EXCEPT ![NamespaceDefault] =
                     [exists |-> TRUE, marker |-> FALSE, ver |-> 1]]
    /\ plan = <<"default">>
    /\ badConv = {}
    /\ active = Replicas
    /\ maxRuns = MaxRuns
    /\ maxStartups = RaceStartups
    /\ faults = 0
    /\ envLeft = MaxEnv

NextGrant ==
    \/ \E r \in Replicas :
          \/ Startup(r)
          \/ DefaultGet(r)
          \/ ensureNamespaceServiceAccountRoleBindings(r)
    \/ \E g \in Grants : EnvAddSubject(<<NamespaceDefault, g>>)

SpecGrant == InitGrant /\ [][NextGrant]_vars

(***************************************************************************)
(* SpecMark: the replicas run the grants of the default namespace, which   *)
(* exists, while other actors update the namespace object; no store call   *)
(* fails but by a conflict or because the object exists already.           *)
(***************************************************************************)
InitMark ==
    /\ InitCommon
    /\ InitFresh
    /\ nsStore = [NoNamespaces EXCEPT ![NamespaceDefault] =
                     [exists |-> TRUE, marker |-> FALSE, ver |-> 1]]
    /\ plan = <<"default">>
    /\ badConv = {}
    /\ active = Replicas
    /\ maxRuns = MaxRuns
    /\ maxStartups = RaceStartups
    /\ faults = 0
    /\ envLeft = MaxEnv

NextMark ==
    \/ \E r \in Replicas :
          \/ Startup(r)
          \/ DefaultGet(r)
          \/ ensureNamespaceServiceAccountRoleBindings(r)
    \/ EnvUpdateNamespace(NamespaceDefault)

SpecMark == InitMark /\ [][NextMark]_vars

(***************************************************************************)
(* SpecSCC: the replicas run ensureDefaultSecurityContextConstraints on a  *)
(* cluster where some constraints may exist already, changed by an admin.  *)
(***************************************************************************)
InitSCC ==
    /\ InitCommon
    /\ sccStore \in [SCCs -> {"none", "custom"}]
    /\ policyDoc = [exists |-> FALSE, seeds |-> 0]
    /\ nsStore = NoNamespaces
    /\ plan = <<"scc">>
    /\ badConv = {}
    /\ active = Replicas
    /\ maxRuns = MaxRuns
    /\ maxStartups = MaxRuns * Cardinality(Replicas)
    /\ faults = MaxFaults
    /\ envLeft = 0

NextSCC ==
    \E r \in Replicas :
        \/ Startup(r)
        \/ ensureDefaultSecurityContextConstraints(r)

SpecSCC == InitSCC /\ [][NextSCC]_vars

(***************************************************************************)
(* SpecPolicy: the replicas run ensureComponentAuthorizationRules on a     *)
(* cluster with or without a policy document; some legacy rows may not     *)
(* convert.                                                                *)
(***************************************************************************)
InitPolicy ==
    /\ InitCommon
    /\ sccStore = [s \in SCCs |-> "none"]
    /\ \E e \in BOOLEAN : policyDoc = [exists |-> e, seeds |-> 0]
    /\ nsStore = NoNamespaces
    /\ plan = <<"policy">>
    /\ badConv \in SUBSET LegacyItems
    /\ active = Replicas
    /\ maxRuns = MaxRuns
    /\ maxStartups = RaceStartups
    /\ faults = MaxFaults
    /\ envLeft = 0

NextPolicy ==
    \E r \in Replicas :
        \/ Startup(r)
        \/ ensureComponentAuthorizationRules(r)
        \/ RunReconcile(r)

SpecPolicy == InitPolicy /\ [][NextPolicy]_vars

(***************************************************************************)
(* SpecSeq: one replica runs the whole startup sequence, start after       *)
(* start, on a cluster in any state of initialization; no store call       *)
(* fails.                                                                  *)
(***************************************************************************)
StartupSequence == <<"shared", "infra", "default", "scc", "policy">>

InitSeq ==
    /\ InitCommon
    /\ sccStore \in [SCCs -> {"none", "custom"}]
    /\ \E e \in BOOLEAN : policyDoc = [exists |-> e, seeds |-> 0]
    /\ nsStore \in [Namespaces -> {[exists |-> FALSE, marker |-> FALSE, ver |-> 0],
                                   [exists |-> TRUE, marker |-> FALSE, ver |-> 1],
                                   [exists |-> TRUE, marker |-> TRUE, ver |-> 2]}]
    /\ plan = StartupSequence
    /\ badConv = {}
    /\ active = {"m1"}
    /\ maxRuns = MaxRuns
    /\ maxStartups = MaxRuns * Cardinality(Replicas)
    /\ faults = 0
    /\ envLeft = 0

NextSeq ==
    \E r \in Replicas :
        \/ Startup(r)
        \/ ensureOpenShiftSharedResourcesNamespace(r)
        \/ ensureOpenShiftInfraNamespace(r)
        \/ ensureDefaultNamespaceServiceAccountRoles(r)
        \/ SACheck(r)
        \/ GrantRead(r)
        \/ GrantWrite(r)
        \/ SAMarkUpdate(r)
        \/ ensureDefaultSecurityContextConstraints(r)
        \/ ensureComponentAuthorizationRules(r)
        \/ RunReconcile(r)

SpecSeq == InitSeq /\ [][NextSeq]_vars

(***************************************************************************)
(* Properties.                                                             *)
(***************************************************************************)
GrantsOf(n) == {<<n, g>> : g \in Grants}

\* the startup of r is over
RunEnded(r) == pc[r] = "idle" /\ run[r] > 0

\* ---- C1 ----
\* In a run of ensureNamespaceServiceAccountRoleBindings the marker update is
\* issued only if every grant of the table succeeded in that run and none
\* ended in a terminal error.
C1_UpdateOnlyAfterAllGrants ==
    \A r \in Replicas : \A n \in Namespaces :
        n \in gh[r].upd =>
            /\ GrantsOf(n) \subseteq gh[r].ok
            /\ GrantsOf(n) \cap gh[r].failed = {}

\* A stored namespace changes only by the marker write of a replica all of
\* whose grants succeeded, and the write stores the marker as true.
C1_StoreStep ==
    \A n \in Namespaces :
        (nsStore[n].exists /\ nsStore'[n] # nsStore[n]) =>
            /\ nsStore'[n].marker
            /\ \E r \in Replicas :
                  /\ pc[r] = "sa_mark"
                  /\ loc[r].ns.name = n
                  /\ GrantsOf(n) \subseteq gh[r].ok
                  /\ GrantsOf(n) \cap gh[r].failed = {}

\* C1: the completion marker is written as true only if every grant of the
\* run succeeded; a run with a terminally failed grant issues no namespace
\* update and leaves the stored marker as it was.
C1_MarkerOnlyAfterAllGrants ==
    []C1_UpdateOnlyAfterAllGrants /\ [][C1_StoreStep]_vars

\* a run in which one grant succeeded and one failed has returned, and the
\* namespace is still unmarked
C1_Witness ==
    \E r \in Replicas :
        LET n == OpenShiftInfrastructureNamespace
        IN  /\ RunEnded(r)
            /\ n \in gh[r].sa
            /\ GrantsOf(n) \cap gh[r].failed # {}
            /\ GrantsOf(n) \cap gh[r].ok # {}
            /\ ~nsStore[n].marker

\* ---- C2 ----
\* C2: when a startup left a namespace existing and unmarked after a failed
\* grant, the next startup (meeting no store error) attempts every grant of
\* the namespace's table again and, when all succeed, issues the marker
\* update -- unless the marker was set by someone else meanwhile.
C2_NextStartupRetriesGrants ==
    \A r \in Replicas : \A n \in gh[r].left :
        (RunEnded(r) /\ gh[r].errs = 0) =>
            \/ nsStore[n].marker
            \/ /\ GrantsOf(n) \subseteq gh[r].tried
               /\ (GrantsOf(n) \subseteq gh[r].ok => n \in gh[r].upd)

\* ---- C3 ----
\* C3: an invocation of ensureComponentAuthorizationRules calls the seed
\* loader and walks the legacy tables if and only if its existence check
\* returned not-found; it calls the loader at most once, and after a check
\* that found the document or failed otherwise it issues no seed and no
\* legacy create.
C3_SeedIffNotFound ==
    \A r \in Replicas :
        /\ gh[r].seeded <= 1
        /\ (gh[r].seeded > 0 \/ gh[r].legacySeen # {} \/ gh[r].legacy # {})
              => gh[r].chk = "notfound"
        /\ (gh[r].chk = "notfound" /\ pc[r] \in {"reconcile", "idle"})
              => /\ gh[r].seeded = 1
                 /\ gh[r].legacySeen = LegacyItems
                 /\ gh[r].legacy = LegacyItems \ badConv

\* one invocation saw not-found and seeded, another met an error at the
\* check and did not seed
C3_Witness ==
    \E r1, r2 \in Replicas :
        /\ RunEnded(r1) /\ gh[r1].chk = "notfound" /\ gh[r1].seeded = 1
        /\ gh[r1].legacy # {}
        /\ RunEnded(r2) /\ gh[r2].chk = "error" /\ gh[r2].seeded = 0

\* ---- C4 ----
\* C4: for every interleaving of two replicas the overwriting seed is never
\* applied while the cluster policy document exists in the store.
C4_NeverSeedOverExisting ==
    \A r \in Replicas : ~gh[r].seededOver

\* ---- C5 ----
DefaultBindings == GrantsOf(NamespaceDefault)

DesiredSubjects(b) == GetBootstrapServiceAccountProjectRoleBindings(b[1])[b[2]]

\* C5 as stated: once all calls have returned, every binding holds exactly
\* its initial subjects united with the desired set of every call made on
\* it, and no call failed by conflicts alone.
C5_UnionOfAllCalls ==
    (\A r \in Replicas : pc[r] = "idle") =>
        /\ \A b \in DefaultBindings :
              rbStore[b].subjects =
                  hist.s0
                      \cup (IF b \in hist.called THEN DesiredSubjects(b) ELSE {})
                      \cup (IF b \in hist.envAdded THEN {OtherSubject} ELSE {})
        /\ \A r \in Replicas : gh[r].conflicted = {}

\* C5 amended: at any time every binding holds exactly its initial subjects
\* united with the desired set of every call that returned success; a call
\* fails by conflicts alone only after the retry bound of 5 attempts, each
\* of which lost to a write of another caller.
C5_UnionOfSucceededCalls ==
    /\ \A b \in DefaultBindings :
          /\ rbStore[b].subjects =
                 hist.s0
                     \cup (IF b \in hist.granted THEN DesiredSubjects(b) ELSE {})
                     \cup (IF b \in hist.envAdded THEN {OtherSubject} ELSE {})
          /\ \A r \in Replicas :
                b \in gh[r].ok => (b \in hist.granted /\ b \notin gh[r].failed)
    /\ \A r \in Replicas :
          /\ gh[r].conflicted \subseteq gh[r].failed
          /\ \A k \in gh[r].conflictWrites : k >= 5

\* every call has returned: one replica's grant was lost to conflicts, the
\* other's succeeded, and another caller's subject is stored beside it
C5_Witness ==
    \E r1, r2 \in Replicas : \E b \in DefaultBindings :
        /\ \A r \in Replicas : pc[r] = "idle"
        /\ b \in gh[r1].conflicted
        /\ b \in gh[r2].ok
        /\ rbStore[b].subjects = hist.s0 \cup DesiredSubjects(b) \cup {OtherSubject}

\* ---- C6 ----
\* C6: with no store failure, the second (and any later) run of the whole
\* startup sequence leaves the store exactly as the first run left it: it
\* adds no subject, creates no object and does not seed again.
C6_SecondRunChangesNothing ==
    [][(\E r \in Replicas : run[r] >= 2) => storeVars' = storeVars]_vars

\* the second run is over, after a first run that created the namespaces,
\* granted the roles, created a constraint and seeded the policy document
C6_Witness ==
    /\ run["m1"] = 2
    /\ pc["m1"] = "idle"
    /\ gh["m1"].ended = Functions
    /\ policyDoc.seeds = 1
    /\ nsStore[OpenShiftSharedResourcesNamespace].marker
    /\ nsStore[OpenShiftInfrastructureNamespace].marker
    /\ GrantsOf(OpenShiftInfrastructureNamespace) \subseteq hist.granted
    /\ \E s \in SCCs : sccStore[s] = "bootstrap"
    /\ legacyStore = LegacyItems

\* ---- C7 ----
\* C7: the polling loop never makes a 31st fetch; when every fetch returned
\* not-found, the function gives up after exactly 30 fetches, logs the
\* failure and returns without a grant or a namespace update; after the
\* 30th not-found fetch nothing but giving up is possible.
C7_BoundedPolling ==
    \A r \in Replicas :
        /\ gh[r].fetches <= 30
        /\ gh[r].gaveUp =>
              /\ gh[r].fetches = 30
              /\ "default" \in gh[r].aborted
              /\ <<"default", 1>> \in gh[r].elog
              /\ gh[r].sa = {} /\ gh[r].tried = {} /\ gh[r].upd = {}
        /\ (pc[r] = "default_get" /\ gh[r].fetches = 30) =>
              /\ ~ENABLED DefaultGet(r)
              /\ ENABLED DefaultGiveUp(r)

\* the namespace never appeared and the function gave up
C7_Witness ==
    \E r \in Replicas :
        /\ RunEnded(r)
        /\ gh[r].gaveUp
        /\ ~nsStore[NamespaceDefault].exists

\* ---- C8 ----
\* C8: a get-or-create whose create returned already-exists, and that met no
\* store error, goes on to the service-account grants of the namespace
\* instead of returning at an error.
C8_CreateRaceTolerated ==
    \A r \in Replicas : \A n \in gh[r].lostRace :
        (RunEnded(r) /\ gh[r].errs = 0) =>
            /\ n \in gh[r].sa
            /\ gh[r].aborted = {}

\* ---- C9 ----
\* C9: every invocation of ensureComponentAuthorizationRules that has
\* returned attempted the reconciliation of the discovery role and then of
\* the discovery role binding.
C9_DiscoveryAlwaysReconciled ==
    \A r \in Replicas :
        "policy" \in gh[r].ended => gh[r].rec = <<DiscoveryRole, DiscoveryRoleBinding>>

\* ---- C10 ----
\* while the range runs, the constraints before the current one had one
\* create each and the others none; when the function has returned, every
\* constraint had exactly one; only creates that failed otherwise are logged
C10_OneCreateEach ==
    \A r \in Replicas :
        /\ pc[r] = "scc_create" =>
              \A s \in SCCs : gh[r].sccTries[s] = IF s < loc[r].li THEN 1 ELSE 0
        /\ "scc" \in gh[r].ended => \A s \in SCCs : gh[r].sccTries[s] = 1
        /\ Cardinality({s \in SCCs : <<"scc", s>> \in gh[r].elog}) <= gh[r].errs

\* a constraint that exists is left as it is
C10_StoreStep ==
    \A s \in SCCs : sccStore[s] # "none" => sccStore'[s] = sccStore[s]

\* C10: ensureDefaultSecurityContextConstraints issues exactly one create per
\* constraint; already-exists leaves the stored constraint unchanged and is
\* not logged as an error; another error skips only that constraint.
C10_CreateOnlySkipOnConflict ==
    []C10_OneCreateEach /\ [][C10_StoreStep]_vars

\* an invocation met an error on the first constraint, went on to the second,
\* and a constraint an admin had changed is still as the admin left it
C10_Witness ==
    \E r \in Replicas :
        /\ RunEnded(r)
        /\ <<"scc", 1>> \in gh[r].elog
        /\ gh[r].sccTries[NumSCC] = 1
        /\ sccStore[1] = "none"
        /\ sccStore[NumSCC] = "custom"

\* ---- C11 ----
\* C11 as stated: whenever the marker update of a run ended in a version
\* conflict, the stored namespace carries the completion marker.
C11_ConflictMeansMarked ==
    \A r \in Replicas : \A n \in gh[r].updConflict : nsStore[n].marker

\* C11 amended: whenever the marker update of a run ended in a version
\* conflict, the stored namespace carries the completion marker or an actor
\* other than the bootstrap replicas has updated the namespace object; in
\* either case the stored object is newer than the one the run held.
C11_ConflictMeansMarkedOrTouched ==
    \A r \in Replicas : \A n \in gh[r].updConflict :
        /\ nsStore[n].marker \/ n \in hist.nsTouched
        /\ nsStore[n].ver > 1

\* a run lost its marker update to the other replica alone: the marker is set
C11_Witness ==
    \E r \in Replicas :
        /\ RunEnded(r)
        /\ NamespaceDefault \in gh[r].updConflict
        /\ nsStore[NamespaceDefault].marker
        /\ NamespaceDefault \notin hist.nsTouched

\* ---- C12 ----
\* C12: a legacy role or binding whose creation failed in one startup, and
\* that is still missing, has its creation attempted again by the next
\* startup, when that startup meets no store error.
C12_NextStartupRetriesLegacy ==
    \A r \in Replicas : \A item \in gh[r].leftLegacy :
        (RunEnded(r) /\ gh[r].errs = 0) =>
            \/ item \in gh[r].legacy
            \/ item \in legacyStore

\* ---- C13 ----
\* a run that returned at the short-circuit attempted no grant of the
\* namespace and issued no namespace update
C13_ShortCircuitHistory ==
    \A r \in Replicas : \A n \in gh[r].short :
        /\ GrantsOf(n) \cap gh[r].tried = {}
        /\ n \notin gh[r].upd

\* the step a replica takes at the short-circuit test, holding a namespace
\* object with the marker, returns and leaves the whole store as it is
C13_ShortCircuitStep ==
    \A r \in Replicas :
        (/\ pc[r] = "sa_check"
         /\ loc[r].ns.marker
         /\ <<pc'[r], loc'[r], gh'[r]>> # <<pc[r], loc[r], gh[r]>>)
        => /\ storeVars' = storeVars
           /\ hist' = hist
           /\ pc'[r] \notin {"grant_read", "grant_write", "sa_mark"}
           /\ loc[r].ns.name \in gh'[r].short

\* C13: called with a namespace object that carries the completion marker,
\* ensureNamespaceServiceAccountRoleBindings returns without any read or
\* write of the role bindings or the namespace: the store is unchanged.
C13_ShortCircuitNoStoreCall ==
    []C13_ShortCircuitHistory /\ [][C13_ShortCircuitStep]_vars

\* a run fetched the infrastructure namespace another replica had marked,
\* reconciled the controller roles and returned at the short-circuit
C13_Witness ==
    \E r \in Replicas :
        /\ RunEnded(r)
        /\ OpenShiftInfrastructureNamespace \in gh[r].short
        /\ gh[r].tried = {}
        /\ gh[r].rec # << >>
        /\ nsStore[OpenShiftInfrastructureNamespace].marker

\* ---- C14 ----
\* once the range over the grant table of a namespace is over, every grant
\* of the table was attempted and ended in success or in a terminal error;
\* a grant is never retried more than the retry bound allows
C14_AllGrantsAttempted ==
    \A r \in Replicas :
        /\ loc[r].tries < 5
        /\ gh[r].conflicted \subseteq gh[r].failed
        /\ \A n \in gh[r].sa \ gh[r].short :
              ~(pc[r] \in {"grant_read", "grant_write"} /\ loc[r].ns.name = n)
                  => /\ GrantsOf(n) \subseteq gh[r].tried
                     /\ GrantsOf(n) \subseteq gh[r].ok \cup gh[r].failed

\* how far a replica at program point p with locals L is in the grant loop
GrantRank(p, L) ==
    IF p \in {"grant_read", "grant_write"}
    THEN (L.g * RetrySteps + L.tries) * 2 + (IF p = "grant_write" THEN 1 ELSE 0)
    ELSE (NumGrants + 1) * RetrySteps * 2

\* a step of a replica inside the grant loop moves it forward; an error that
\* is no conflict ends the grant at once, a conflict is retried unless four
\* attempts were lost before, and an ended grant is followed by the next
\* grant of the table, or by the end of the loop after the last one
C14_GrantStep ==
    \A r \in Replicas :
        (/\ pc[r] \in {"grant_read", "grant_write"}
         /\ <<pc'[r], loc'[r], gh'[r]>> # <<pc[r], loc[r], gh[r]>>)
        => LET b == <<loc[r].ns.name, loc[r].g>>
               atWrite == pc[r] = "grant_write"
               otherError ==
                   \/ gh'[r].errs > gh[r].errs
                   \/ atWrite /\ loc[r].rb.ver = 0 /\ rbStore[b].ver # 0
               conflict ==
                   /\ atWrite
                   /\ gh'[r].errs = gh[r].errs
                   /\ loc[r].rb.ver # 0
                   /\ rbStore[b].ver # loc[r].rb.ver
               Advanced ==
                   IF loc[r].g < NumGrants
                   THEN pc'[r] = "grant_read" /\ loc'[r].g = loc[r].g + 1
                                              /\ loc'[r].tries = 0
                   ELSE pc'[r] = "sa_mark"
           IN  /\ GrantRank(pc'[r], loc'[r]) > GrantRank(pc[r], loc[r])
               /\ otherError =>
                      /\ b \in gh'[r].failed \ gh'[r].conflicted
                      /\ Advanced
               /\ conflict =>
                      IF loc[r].tries < 4
                      THEN /\ pc'[r] = "grant_read"
                           /\ loc'[r].g = loc[r].g
                           /\ loc'[r].tries = loc[r].tries + 1
                           /\ b \notin gh'[r].failed
                      ELSE /\ b \in gh'[r].conflicted
                           /\ Advanced

\* C14: one run of ensureNamespaceServiceAccountRoleBindings attempts every
\* grant of the table whatever became of the earlier ones; a conflict is
\* retried at most four times, another error ends the grant at once, and
\* the loop goes on to the remaining grants and terminates.
C14_EveryGrantAttempted ==
    []C14_AllGrantsAttempted /\ [][C14_GrantStep]_vars

\* a run whose first grant ended in an error that is no conflict went on
\* to the second grant, which succeeded, and returned without the marker
C14_Witness ==
    \E r \in Replicas :
        /\ RunEnded(r)
        /\ <<NamespaceDefault, 1>> \in gh[r].failed \ gh[r].conflicted
        /\ <<NamespaceDefault, NumGrants>> \in gh[r].ok
        /\ NamespaceDefault \notin gh[r].upd

\* ---- C15 ----
\* a run that aborted the wait at an error other than not-found logged it
\* and made no grant and no namespace update; a run that came to the grants
\* did not abort the wait
C15_AbortedRunDidNothing ==
    \A r \in Replicas :
        /\ ("default" \in gh[r].aborted /\ ~gh[r].gaveUp)
              => /\ <<"default", 0>> \in gh[r].elog
                 /\ gh[r].errs >= 1
                 /\ gh[r].sa = {} /\ gh[r].tried = {} /\ gh[r].upd = {}
        /\ gh[r].sa # {} => "default" \notin gh[r].aborted

\* one step of the wait: below 30 fetches a fetch is made; not-found leads to
\* another step of the wait, success to the grants on the fetched namespace,
\* any other error out of the function with the store untouched
C15_PollStep ==
    \A r \in Replicas :
        (/\ pc[r] = "default_get"
         /\ <<pc'[r], loc'[r], gh'[r]>> # <<pc[r], loc[r], gh[r]>>)
        => IF gh[r].fetches < 30
           THEN /\ gh'[r].fetches = gh[r].fetches + 1
                /\ IF gh'[r].errs > gh[r].errs
                   THEN /\ "default" \in gh'[r].aborted
                        /\ "default" \in gh'[r].ended
                        /\ pc'[r] \notin {"default_get", "sa_check"}
                        /\ storeVars' = storeVars
                   ELSE IF nsStore[NamespaceDefault].exists
                        THEN /\ pc'[r] = "sa_check"
                             /\ loc'[r].ns = Fetched(NamespaceDefault)
                        ELSE /\ pc'[r] = "default_get"
                             /\ "default" \notin gh'[r].ended
           ELSE /\ gh'[r].fetches = gh[r].fetches
                /\ gh'[r].gaveUp

\* C15: in the wait for the default namespace a not-found fetch is retried
\* while fewer than 30 fetches were made, the first successful fetch starts
\* the grants on the fetched namespace, and the first fetch that fails
\* otherwise aborts the run: no fetch, grant or namespace update follows.
C15_PollOutcomes ==
    []C15_AbortedRunDidNothing /\ [][C15_PollStep]_vars

\* a run waited through not-found fetches and then aborted at another error,
\* although the namespace had appeared meanwhile
C15_Witness ==
    \E r \in Replicas :
        /\ RunEnded(r)
        /\ "default" \in gh[r].aborted
        /\ ~gh[r].gaveUp
        /\ gh[r].fetches >= 2
        /\ nsStore[NamespaceDefault].exists
        /\ ~nsStore[NamespaceDefault].marker

\* ---- C16 ----
\* a run of ensureOpenShiftInfraNamespace that logged an error of the create
\* or of the fetch reconciled nothing, attempted no grant and issued no
\* marker update
C16_AbortedRunDidNothing ==
    \A r \in Replicas :
        (<<"infra", 0>> \in gh[r].elog \/ <<"infra", 1>> \in gh[r].elog)
            => /\ "infra" \in gh[r].aborted
               /\ gh[r].rec = << >>
               /\ gh[r].sa = {} /\ gh[r].tried = {} /\ gh[r].upd = {}

\* the step in which the create or the fetch meets such an error returns
\* from the function and leaves the store as it is
C16_ErrorStep ==
    \A r \in Replicas :
        (/\ pc[r] \in {"infra_create", "infra_get"}
         /\ gh'[r].errs > gh[r].errs)
        => /\ "infra" \in gh'[r].ended
           /\ pc'[r] \notin {"infra_get", "reconcile", "sa_check"}
           /\ storeVars' = storeVars

\* C16: when the create of the infrastructure namespace fails with an error
\* other than already-exists, or the fetch after already-exists fails, the
\* function returns: no controller role or binding is reconciled, no grant
\* is attempted and no marker is written in that run.
C16_InfraAbortsOnError ==
    []C16_AbortedRunDidNothing /\ [][C16_ErrorStep]_vars

\* a replica lost the create to the other one, failed to fetch the namespace
\* and returned, while the other replica went through its grants
C16_Witness ==
    \E r1, r2 \in Replicas :
        /\ RunEnded(r1) /\ RunEnded(r2)
        /\ <<"infra", 1>> \in gh[r1].elog
        /\ OpenShiftInfrastructureNamespace \in gh[r1].lostRace
        /\ gh[r1].rec = << >>
        /\ OpenShiftInfrastructureNamespace \in gh[r2].upd
        /\ nsStore[OpenShiftInfrastructureNamespace].marker

\* ---- C17 ----
\* an invocation that took the Absent branch and returned called the seed
\* loader, visited every legacy row, issued the create of every row that
\* converts, and attempted the discovery reconciliation, whether or not the
\* seed failed; the check reports the document only when it exists
C17_AbsentBranchCompletes ==
    \A r \in Replicas :
        /\ (gh[r].chk = "notfound" /\ "policy" \in gh[r].ended)
              => /\ gh[r].seeded = 1
                 /\ gh[r].legacySeen = LegacyItems
                 /\ gh[r].legacy = LegacyItems \ badConv
                 /\ gh[r].rec = DiscoveryQueue
        /\ gh[r].chk = "found" => policyDoc.exists

\* a failed seed leaves the document as it was and leads to the legacy rows;
\* every legacy row, failed or not, leads to the next row and the last one to
\* the discovery reconciliation; an existence check that meets no error
\* while the document is absent leads to the seed
C17_Step ==
    \A r \in Replicas :
        /\ (pc[r] = "policy_seed" /\ gh'[r].errs > gh[r].errs)
              => /\ pc'[r] = "legacy"
                 /\ policyDoc' = policyDoc
                 /\ <<"policy", 1>> \in gh'[r].elog
        /\ (pc[r] = "legacy" /\ gh'[r] # gh[r])
              => IF loc[r].li < 2 * NumLegacy
                 THEN pc'[r] = "legacy" /\ loc'[r].li = loc[r].li + 1
                 ELSE pc'[r] = "reconcile" /\ loc'[r].rq = DiscoveryQueue
        /\ (/\ pc[r] = "policy_check"
            /\ pc'[r] # pc[r]
            /\ gh'[r].errs = gh[r].errs
            /\ ~policyDoc.exists)
              => pc'[r] = "policy_seed"

\* C17: in the Absent branch a failed seed does not stop the invocation: the
\* legacy roles and bindings are each attempted, the discovery
\* reconciliation runs, and as the document is still absent the next
\* invocation takes the Absent branch again.
C17_SeedFailureContinues ==
    []C17_AbsentBranchCompletes /\ [][C17_Step]_vars

\* the second invocation of a replica that runs alone takes the Absent
\* branch again: its first one failed to seed and created the legacy rows
C17_Witness ==
    \E r \in Replicas :
        /\ run[r] = 2
        /\ \A q \in Replicas \ {r} : run[q] = 0
        /\ ~policyDoc.exists
        /\ policyDoc.seeds = 0
        /\ legacyStore # {}
        /\ gh[r].chk = "notfound"
        /\ pc[r] = "policy_seed"

\* ---- C18 ----
\* a step deletes no namespace, security context constraint, role, role
\* binding or legacy row, and takes no rule from a role and no subject from
\* a role binding
C18_GrowStep ==
    /\ \A n \in Namespaces : nsStore[n].exists => nsStore'[n].exists
    /\ \A s \in SCCs : sccStore[s] # "none" => sccStore'[s] # "none"
    /\ \A c \in ClusterItems :
          /\ clusterStore[c].ver # 0 => clusterStore'[c].ver # 0
          /\ clusterStore[c].have \subseteq clusterStore'[c].have
    /\ \A b \in Bindings :
          /\ rbStore[b].ver # 0 => rbStore'[b].ver # 0
          /\ rbStore[b].subjects \subseteq rbStore'[b].subjects
    /\ legacyStore \subseteq legacyStore'

\* C18: the store only grows: no step of any interleaving of bootstrap runs
\* deletes a namespace, a security-policy object, a role or a role binding,
\* and the rules of every role and the subjects of every role binding after
\* a step include those before it.
C18_GrowOnly == [][C18_GrowStep]_vars

\* roles and bindings that existed with a rule or subject of their own were
\* reconciled and granted: they hold the old and the new
C18_Witness ==
    /\ \A r \in Replicas : RunEnded(r)
    /\ clusterStore[ControllerRoles[1]].have = {PreRule} \cup DesiredOf(ControllerRoles[1])
    /\ clusterStore[ControllerRoleBindings[1]].have
           = {PreRule} \cup DesiredOf(ControllerRoleBindings[1])
    /\ \A b \in GrantsOf(OpenShiftInfrastructureNamespace) :
          rbStore[b].subjects = {PreSubject} \cup DesiredSubjects(b)
    /\ nsStore[OpenShiftInfrastructureNamespace].marker

\* ---- C19 ----
\* C19: in every reachable state a namespace whose stored completion marker
\* is true has, for every grant of its table, the role binding in the store
\* with all the subjects of the grant.
C19_MarkerImpliesGrants ==
    \A n \in Namespaces :
        nsStore[n].marker =>
            \A b \in GrantsOf(n) :
                /\ rbStore[b].ver # 0
                /\ DesiredSubjects(b) \subseteq rbStore[b].subjects

\* the infrastructure namespace is marked by one replica although a grant of
\* the other replica's run failed
C19_Witness ==
    \E r1, r2 \in Replicas :
        /\ RunEnded(r1) /\ RunEnded(r2)
        /\ GrantsOf(OpenShiftInfrastructureNamespace) \cap gh[r1].failed # {}
        /\ OpenShiftInfrastructureNamespace \in gh[r2].upd
        /\ nsStore[OpenShiftInfrastructureNamespace].marker

\* ---- C20 ----
\* a call whose fetch of the shared-resources namespace found it, or failed
\* otherwise than by not-found, has returned without a create, a grant or a
\* marker update
C20_NoCallUnlessNotFound ==
    \A r \in Replicas :
        gh[r].sharedGet \in {"found", "error"}
            => /\ "shared" \in gh[r].ended
               /\ "shared" \notin gh[r].aborted
               /\ gh[r].lostRace = {}
               /\ gh[r].sa = {} /\ gh[r].tried = {} /\ gh[r].upd = {}

\* the fetch itself writes nothing and, unless it reports not-found, is the
\* last step of the call; the store changes only in a step of a call whose
\* fetch reported not-found
C20_Step ==
    /\ \A r \in Replicas :
          (/\ pc[r] = "shared_get"
           /\ <<pc'[r], loc'[r], gh'[r]>> # <<pc[r], loc[r], gh[r]>>)
          => /\ storeVars' = storeVars
             /\ (\/ nsStore[OpenShiftSharedResourcesNamespace].exists
                 \/ gh'[r].errs > gh[r].errs)
                   => /\ "shared" \in gh'[r].ended
                      /\ pc'[r] \notin {"shared_create", "sa_check"}
    /\ storeVars' # storeVars
          => \E r \in Replicas :
                /\ gh[r].sharedGet = "notfound"
                /\ <<pc'[r], loc'[r], gh'[r]>> # <<pc[r], loc[r], gh[r]>>

=============================================================================
